---- MODULE Spec2Model ----
(***************************************************************************)
(* Model of krpynews.py: the extraction / identifier / deduplicating       *)
(* persistence pipeline.                                                   *)
(*                                                                         *)
(* Text is a sequence of one-character strings, so that strip(), lower()   *)
(* and the substring test `in` are computed rather than assumed.           *)
(* An article record keeps the fields id, Title, Description and Category; *)
(* Date, Source, Source URL and Sentiment come from the clock, the url and *)
(* the external sentiment pipeline and take no part in control flow.       *)
(***************************************************************************)
EXTENDS Integers, Sequences, FiniteSets, TLC

VARIABLES
    pc,                  \* position of the running process (or of the caller)
    site,                \* index into urls of the next entry of the for loop
    unique_id_counter,   \* the module global (line 12)
    store,               \* the 'news' collection, in insertion order
    all_articles,        \* main's all_articles / save_to_mongo's data
    keywords,            \* the keywords argument of extract_news
    raised,              \* the exception that ended the process, or "none"
    last_save,           \* which branch the last save_to_mongo call took
    soup,                \* call level only: the fragments the call was given
    extracted_articles   \* call level only: the list the call returned

vars == <<pc, site, unique_id_counter, store, all_articles, soup,
          extracted_articles, keywords, raised, last_save>>

----------------------------------------------------------------------------
(* Bounds of the model *)

MaxFrags == 2
MaxId == 4
MaxTitleLen == 3
MaxCallFrags == 3
MaxBatch == 2

(* Program constants *)

max_articles == 100
NumSites == 3

----------------------------------------------------------------------------
(* Text helpers *)

Whitespace == {" "}

LowerChar(c) ==
    CASE c = "B" -> "b"
      [] c = "E" -> "e"
      [] c = "X" -> "x"
      [] OTHER -> c

lower(s) == [i \in 1..Len(s) |-> LowerChar(s[i])]

RECURSIVE lstrip(_)
lstrip(s) ==
    IF s # <<>> /\ Head(s) \in Whitespace THEN lstrip(Tail(s)) ELSE s

RECURSIVE rstrip(_)
rstrip(s) ==
    IF s # <<>> /\ s[Len(s)] \in Whitespace
    THEN rstrip(SubSeq(s, 1, Len(s) - 1))
    ELSE s

strip(s) == rstrip(lstrip(s))

\* Python's  a in b  on strings
Contains(a, b) ==
    \E k \in 0..(Len(b) - Len(a)) : SubSeq(b, k + 1, k + Len(a)) = a

Take(s, n) == IF Len(s) <= n THEN s ELSE SubSeq(s, 1, n)

----------------------------------------------------------------------------
(* Inputs: site markup, site configuration, keyword maps *)

\* One element returned by soup.find_all(article_elements): whether
\* article.find(title_tag, class_) and article.find(description_tag) find an
\* element, and the text of each.
Frag(ht, t, hd, d) == [has_title |-> ht, title |-> t, has_desc |-> hd, desc |-> d]

F_deco == Frag(FALSE, <<>>, TRUE, <<"d">>)
F_both == Frag(TRUE, <<" ", "b", "E">>, TRUE, <<"d", " ">>)
F_eth  == Frag(TRUE, <<"e">>, FALSE, <<>>)
F_none == Frag(TRUE, <<"x">>, TRUE, <<"d">>)

Fragments == {F_deco, F_both, F_eth, F_none}

\* The documents a site serves in the pipeline.
SiteDocs == UNION {[1..n -> {F_deco, F_both, F_eth}] : n \in 0..MaxFrags}

\* The documents handed to a single observed call: any mix of the fragments
\* above, or one fragment with an arbitrary title.
Alphabet == {"b", "B", "e", " "}

Titles == UNION {[1..n -> Alphabet] : n \in 0..MaxTitleLen}

CallDocs ==
    UNION {[1..n -> Fragments] : n \in 0..MaxCallFrags}
    \cup {<<Frag(TRUE, t, FALSE, <<>>)>> : t \in Titles}

\* TRUE for an argument that was passed, FALSE for one left at None.
Cfg(a, c, d) == [article_elements |-> a, class_name |-> c, date_tag |-> d]

\* The ways one call is made: configuration and whether requests.get returns.
Attempts == { <<Cfg(TRUE, TRUE, TRUE), TRUE>>,
              <<Cfg(TRUE, TRUE, TRUE), FALSE>>,
              <<Cfg(FALSE, TRUE, TRUE), TRUE>>,
              <<Cfg(TRUE, FALSE, TRUE), TRUE>>,
              <<Cfg(TRUE, TRUE, FALSE), TRUE>>,
              <<Cfg(FALSE, FALSE, FALSE), FALSE>> }

Cat(name, kws) == [category |-> name, kws |-> kws]

\* The keywords dict of the main block, in insertion order, abridged to two
\* categories; keywords are written in upper case as in the source.
MainKeywords == << Cat("BTC", << <<"B">>, <<"B", "X">> >>),
                   Cat("ETH", << <<"E">> >>) >>

KeywordMaps ==
    { MainKeywords,
      << Cat("ETH", << <<"E">> >>), Cat("BTC", << <<"B">> >>) >>,
      << Cat("BTC", << <<"b", "b">>, <<"B", "e">> >>),
         Cat("ETH", << <<"E", "b">> >>),
         Cat("SOL", << <<"e">> >>) >>,
      << Cat("BTC", << >>), Cat("ETH", << <<"e", " ">> >>) >>,
      << >> }

----------------------------------------------------------------------------
(* extract_news *)

\* any(keyword.lower() in title_text.lower() for keyword in category_keywords)
any_keyword(category_keywords, title_text) ==
    \E j \in 1..Len(category_keywords) :
        Contains(lower(category_keywords[j]), lower(title_text))

\* Variant: the loop without its break, so the last matching category stands.
RECURSIVE matched_category_last(_, _, _)
matched_category_last(kw, title_text, k) ==
    IF k > Len(kw) THEN 0
    ELSE LET later == matched_category_last(kw, title_text, k + 1)
         IN IF later # 0 THEN later
            ELSE IF any_keyword(kw[k].kws, title_text) THEN k ELSE 0

\* for category, category_keywords in keywords.items(): ... break
\* The position of the category whose body runs, 0 when the loop ends
\* without reaching break.
RECURSIVE matched_category(_, _, _)
matched_category(kw, title_text, k) ==
    IF k > Len(kw) THEN 0
    ELSE IF any_keyword(kw[k].kws, title_text) THEN k
    ELSE matched_category(kw, title_text, k + 1)

\* description_element.text.strip() if description_element else ''
description_of(article) ==
    IF article.has_desc THEN strip(article.desc) ELSE <<>>

Article(id, title_text, description, category) ==
    [id |-> id, Title |-> title_text, Description |-> description,
     Category |-> category]

\* Variant: the counter is advanced as soon as a title is found, before the
\* category test.
RECURSIVE article_loop_eager_id(_, _, _, _, _)
article_loop_eager_id(elems, kw, i, articles, counter) ==
    IF i > Len(elems) THEN [articles |-> articles, counter |-> counter]
    ELSE IF ~elems[i].has_title
         THEN article_loop_eager_id(elems, kw, i + 1, articles, counter)
    ELSE LET title_text == strip(elems[i].title)
             k == matched_category(kw, title_text, 1)
         IN IF k = 0
            THEN article_loop_eager_id(elems, kw, i + 1, articles, counter + 1)
            ELSE article_loop_eager_id(elems, kw, i + 1,
                     Append(articles,
                            Article(counter + 1, title_text,
                                    description_of(elems[i]),
                                    kw[k].category)),
                     counter + 1)

\* for article in article_elements: the body of the loop, from the i-th
\* element on, with the articles collected and the counter so far.
RECURSIVE article_loop(_, _, _, _, _)
article_loop(elems, kw, i, articles, counter) ==
    IF i > Len(elems) THEN [articles |-> articles, counter |-> counter]
    ELSE IF ~elems[i].has_title
         THEN article_loop(elems, kw, i + 1, articles, counter)
    ELSE LET title_text == strip(elems[i].title)
             k == matched_category(kw, title_text, 1)
         IN IF k = 0
            THEN article_loop(elems, kw, i + 1, articles, counter)
            ELSE article_loop(elems, kw, i + 1,
                     Append(articles,
                            Article(counter + 1, title_text,
                                    description_of(elems[i]),
                                    kw[k].category)),
                     counter + 1)

\* Variant: the arguments are validated after the loop instead of before it.
extract_news_late_check(doc, kw, cfg, fetch_ok, counter) ==
    IF ~fetch_ok
    THEN [raised |-> "RequestException", articles |-> <<>>, counter |-> counter]
    ELSE LET r == article_loop(Take(doc, max_articles), kw, 1, <<>>, counter)
         IN IF ~cfg.article_elements \/ ~cfg.class_name \/ ~cfg.date_tag
            THEN [raised |-> "ValueError", articles |-> <<>>, counter |-> r.counter]
            ELSE [raised |-> "none", articles |-> r.articles, counter |-> r.counter]

\* The whole call: what it raises, what it returns, and the counter after.
extract_news(doc, kw, cfg, fetch_ok, counter) ==
    IF ~fetch_ok
    THEN [raised |-> "RequestException", articles |-> <<>>, counter |-> counter]
    ELSE IF ~cfg.article_elements \/ ~cfg.class_name \/ ~cfg.date_tag
    THEN [raised |-> "ValueError", articles |-> <<>>, counter |-> counter]
    ELSE LET r == article_loop(Take(doc, max_articles), kw, 1, <<>>, counter)
         IN [raised |-> "none", articles |-> r.articles, counter |-> r.counter]

----------------------------------------------------------------------------
(* save_to_mongo *)

Ids(recs) == {recs[i].id : i \in 1..Len(recs)}

\* Variant: the existence query finds nothing.
existing_ids_none(coll, data) == {}

\* collection.find({'id': {'$in': [...]}}) collected into a set of ids
existing_ids(coll, data) == Ids(coll) \cap Ids(data)

\* Variant: the batch is inserted unfiltered.
new_articles_unfiltered(coll, data) == data

\* [article for article in data if article['id'] not in existing_ids]
new_articles(coll, data) ==
    SelectSeq(data, LAMBDA article : article.id \notin existing_ids(coll, data))

\* Variant: the write replaces the collection's content.
insert_many_replace(coll, docs) == docs

\* collection.insert_many(new_articles), skipped when the list is empty
insert_many(coll, docs) == coll \o docs

\* Variant: the counter is set to the number of stored documents.
max_id_count(coll) == Len(coll)

\* find_one({}, sort=[("id", DESCENDING)]) and the assignment that follows
max_id(coll) ==
    IF coll = <<>> THEN 0
    ELSE CHOOSE m \in Ids(coll) : \A x \in Ids(coll) : x <= m

SaveLog(called, wrote, n) == [called |-> called, insert_many |-> wrote, n |-> n]

\* save_to_mongo(data) on a collection that answers.
save_to_mongo(data) ==
    LET new == new_articles(store, data)
        after == IF new # <<>> THEN insert_many(store, new) ELSE store
    IN /\ store' = after
       /\ last_save' = SaveLog(TRUE, new # <<>>, Len(new))
       /\ unique_id_counter' = max_id(after)

----------------------------------------------------------------------------
(* The process: the main block *)

Init ==
    /\ pc = "extract"
    /\ site = 1
    /\ unique_id_counter = 0
    /\ store = <<>>
    /\ all_articles = <<>>
    /\ soup = <<>>
    /\ extracted_articles = <<>>
    /\ keywords = MainKeywords
    /\ raised = "none"
    /\ last_save = SaveLog(FALSE, FALSE, 0)

\* One pass of  for entry in urls  whose extract_news call returns.
ExtractNewsReturns(doc, cfg, fetch_ok) ==
    LET r == extract_news(doc, keywords, cfg, fetch_ok, unique_id_counter) IN
    /\ pc = "extract"
    /\ r.raised = "none"
    /\ r.counter <= MaxId
    /\ unique_id_counter' = r.counter
    /\ all_articles' = all_articles \o r.articles
    /\ site' = site + 1
    /\ pc' = IF site = NumSites THEN "save" ELSE "extract"
    /\ UNCHANGED <<store, keywords, raised, last_save, soup,
                   extracted_articles>>

\* Variant: what was collected is saved on the way out of a failing run.
ExtractNewsRaisesThenSaves(doc, cfg, fetch_ok) ==
    LET r == extract_news(doc, keywords, cfg, fetch_ok, unique_id_counter) IN
    /\ pc = "extract"
    /\ r.raised # "none"
    /\ raised' = r.raised
    /\ pc' = "failed"
    /\ save_to_mongo(all_articles)
    /\ UNCHANGED <<site, all_articles, soup, extracted_articles, keywords>>

\* One pass whose extract_news call raises: nothing catches it, the process
\* ends with the traceback.
ExtractNewsRaises(doc, cfg, fetch_ok) ==
    LET r == extract_news(doc, keywords, cfg, fetch_ok, unique_id_counter) IN
    /\ pc = "extract"
    /\ r.raised # "none"
    /\ unique_id_counter' = r.counter
    /\ raised' = r.raised
    /\ pc' = "failed"
    /\ UNCHANGED <<site, store, all_articles, soup, extracted_articles,
                   keywords, last_save>>

SaveToMongo ==
    /\ pc = "save"
    /\ save_to_mongo(all_articles)
    /\ pc' = "done"
    /\ UNCHANGED <<site, all_articles, soup, extracted_articles, keywords, raised>>

\* The collection cannot be reached: collection.find raises, nothing is written.
SaveToMongoUnavailable ==
    /\ pc = "save"
    /\ raised' = "ServerSelectionTimeoutError"
    /\ pc' = "failed"
    /\ UNCHANGED <<site, unique_id_counter, store, all_articles, soup,
                   extracted_articles, keywords, last_save>>

\* The run block driven once more by the same interpreter: the module global
\* keeps its value, all_articles is a fresh list.
RunAgain ==
    /\ pc = "done"
    /\ pc' = "extract"
    /\ site' = 1
    /\ all_articles' = <<>>
    /\ UNCHANGED <<unique_id_counter, store, soup, extracted_articles,
                   keywords, raised, last_save>>

\* A new process is started against the same collection: module level code
\* runs again, so the counter is 0.
Restart ==
    /\ pc \in {"done", "failed"}
    /\ pc' = "extract"
    /\ site' = 1
    /\ unique_id_counter' = 0
    /\ all_articles' = <<>>
    /\ raised' = "none"
    /\ last_save' = SaveLog(FALSE, FALSE, 0)
    /\ UNCHANGED <<store, keywords, soup, extracted_articles>>

Next ==
    \/ \E doc \in SiteDocs, a \in Attempts : ExtractNewsReturns(doc, a[1], a[2])
    \/ \E doc \in SiteDocs, a \in Attempts : ExtractNewsRaises(doc, a[1], a[2])
    \/ SaveToMongo
    \/ SaveToMongoUnavailable
    \/ RunAgain
    \/ Restart

Spec == Init /\ [][Next]_vars

----------------------------------------------------------------------------
(* extract_news observed as a single call, on any keyword map, any starting *)
(* counter and any document                                                 *)

InitExtract ==
    /\ pc = "call"
    /\ site = 1
    /\ unique_id_counter \in 0..MaxId
    /\ store = <<>>
    /\ all_articles = <<>>
    /\ keywords \in KeywordMaps
    /\ raised = "none"
    /\ last_save = SaveLog(FALSE, FALSE, 0)
    /\ soup = <<>>
    /\ extracted_articles = <<>>

CallExtractNews(doc, cfg, fetch_ok) ==
    LET r == extract_news(doc, keywords, cfg, fetch_ok, unique_id_counter) IN
    /\ pc = "call"
    /\ unique_id_counter' = r.counter
    /\ soup' = doc
    /\ raised' = r.raised
    /\ extracted_articles' = r.articles
    /\ pc' = IF r.raised = "none" THEN "returned" ELSE "raised"
    /\ UNCHANGED <<site, store, all_articles, keywords, last_save>>

NextExtract ==
    \E doc \in CallDocs, a \in Attempts : CallExtractNews(doc, a[1], a[2])

SpecExtract == InitExtract /\ [][NextExtract]_vars

----------------------------------------------------------------------------
(* save_to_mongo observed as a call made twice on the same data, on any     *)
(* collection and any batch                                                 *)

PersistArticles ==
    { Article(1, <<"o">>, <<>>, "BTC"), Article(1, <<"n">>, <<>>, "ETH"),
      Article(2, <<"o">>, <<>>, "BTC"), Article(5, <<"n">>, <<>>, "ETH") }

Batches == UNION {[1..n -> PersistArticles] : n \in 0..MaxBatch}

InitPersist ==
    /\ pc = "persist"
    /\ site = 1
    /\ unique_id_counter = 0
    /\ store \in Batches
    /\ all_articles \in Batches
    /\ keywords = MainKeywords
    /\ raised = "none"
    /\ last_save = SaveLog(FALSE, FALSE, 0)
    /\ soup = <<>>
    /\ extracted_articles = <<>>

CallSaveToMongo ==
    /\ pc \in {"persist", "saved_once"}
    /\ save_to_mongo(all_articles)
    /\ pc' = IF pc = "persist" THEN "saved_once" ELSE "saved_twice"
    /\ UNCHANGED <<site, all_articles, keywords, raised, soup, extracted_articles>>

\* The documents of the call that follows save_to_mongo: none, one or three
\* qualifying fragments.
ResyncDocs == { <<>>, <<F_eth>>, <<F_both, F_deco, F_eth>>,
                <<F_eth, F_both, F_both>> }

\* extract_news called once after save_to_mongo has set the counter.
CallExtractNewsAfterSave(doc, cfg, fetch_ok) ==
    LET r == extract_news(doc, keywords, cfg, fetch_ok, unique_id_counter) IN
    /\ pc \in {"saved_once", "saved_twice"}
    /\ unique_id_counter' = r.counter
    /\ soup' = doc
    /\ raised' = r.raised
    /\ extracted_articles' = r.articles
    /\ pc' = IF r.raised = "none" THEN "extracted" ELSE "raised"
    /\ UNCHANGED <<site, store, all_articles, keywords, last_save>>

NextPersist ==
    \/ CallSaveToMongo
    \/ \E doc \in ResyncDocs, a \in Attempts : CallExtractNewsAfterSave(doc, a[1], a[2])

SpecPersist == InitPersist /\ [][NextPersist]_vars

----------------------------------------------------------------------------
(* Vocabulary of the properties, stated without the operators above *)

SameLetter(a, b) ==
    \/ a = b
    \/ {a, b} = {"b", "B"}
    \/ {a, b} = {"e", "E"}
    \/ {a, b} = {"x", "X"}

\* kw occurs in t as a contiguous run of letters, ignoring case
OccursIn(kw, t) ==
    \E off \in 0..(Len(t) - Len(kw)) :
        \A i \in 1..Len(kw) : SameLetter(kw[i], t[off + i])

Least(S) == CHOOSE x \in S : \A y \in S : x <= y
Greatest(S) == CHOOSE x \in S : \A y \in S : y <= x

\* t without its leading and trailing blanks
Trimmed(t) ==
    LET solid == {i \in DOMAIN t : t[i] # " "}
    IN IF solid = {} THEN <<>> ELSE SubSeq(t, Least(solid), Greatest(solid))

\* positions of the categories of kw with a keyword occurring in the title
Hits(kw, title) ==
    {k \in DOMAIN kw :
        \E j \in DOMAIN kw[k].kws : OccursIn(kw[k].kws[j], Trimmed(title))}

\* positions of the fragments of doc that have a title matching a category
Qualifying(doc, kw) ==
    {i \in DOMAIN doc : doc[i].has_title /\ Hits(kw, doc[i].title) # {}}

\* the j-th smallest element of a set of numbers
Nth(S, j) == CHOOSE i \in S : Cardinality({k \in S : k <= i}) = j

DistinctIds(recs) ==
    \A i, j \in DOMAIN recs : recs[i].id = recs[j].id => i = j

LargestId(recs) ==
    IF recs = <<>> THEN 0 ELSE Greatest({recs[i].id : i \in DOMAIN recs})

----------------------------------------------------------------------------
(* Properties *)

\* C1: no two records of the store share an id, whatever sequence of runs,
\* reruns and restarted processes produced the store.
C1_UniqueIds == DistinctIds(store)

\* A run has finished whose batch collided with ids already stored and which
\* still inserted part of the batch.
C1_Witness ==
    /\ pc = "done"
    /\ last_save.insert_many
    /\ last_save.n < Len(all_articles)
    /\ Len(store) > last_save.n

\* C2: every id assigned during a run is strictly greater than every id the
\* store held when the run began (the store does not change before the run's
\* save_to_mongo).
C2_FreshIdsAboveStore ==
    pc \in {"extract", "save"} =>
        \A i \in DOMAIN all_articles : all_articles[i].id > LargestId(store)

\* C3: a second save_to_mongo of the same batch of pairwise distinct ids
\* leaves the store as the first call left it and takes the no-write branch.
C3_SecondSaveIsNoOp ==
    [][ (pc = "saved_once" /\ pc' = "saved_twice" /\ DistinctIds(all_articles))
        => /\ store' = store
           /\ ~last_save'.insert_many
           /\ last_save'.n = 0 ]_vars

\* The second call has returned, after the first one appended the batch.
C3_Witness ==
    /\ pc = "saved_twice"
    /\ Len(all_articles) = 2
    /\ DistinctIds(all_articles)
    /\ Len(store) >= 3
    /\ store[Len(store)] = all_articles[2]
    /\ store[Len(store) - 1] = all_articles[1]

\* C4: after save_to_mongo has set the counter against a store whose largest
\* id is m, the articles extracted next carry m+1, m+2, ... in order.
C4_ResyncThenConsecutive ==
    pc = "extracted" =>
        \A i \in DOMAIN extracted_articles :
            extracted_articles[i].id = LargestId(store) + i

\* A store holding ids 1, 2, 5 and three articles extracted after the resync.
C4_Witness ==
    /\ pc = "extracted"
    /\ {store[i].id : i \in DOMAIN store} = {1, 2, 5}
    /\ Len(extracted_articles) = 3
    /\ extracted_articles[1].id = 6
    /\ extracted_articles[3].id = 8

\* C5: a call that starts with counter c and returns n records ends with
\* counter c+n; the records are those of the fragments that have a title
\* matching some category, one each, in document order, with ids c+1..c+n.
C5_IdPerEmittedRecord ==
    [][ (pc = "call" /\ pc' = "returned")
        => LET Q == Qualifying(soup', keywords)
               n == Len(extracted_articles')
           IN /\ n = Cardinality(Q)
              /\ unique_id_counter' = unique_id_counter + n
              /\ \A j \in 1..n :
                    /\ extracted_articles'[j].id = unique_id_counter + j
                    /\ extracted_articles'[j].Title = Trimmed(soup'[Nth(Q, j)].title)
      ]_vars

\* A call that skipped a fragment, met a title matching two categories and
\* returned two records, starting from a counter above 0.
C5_Witness ==
    /\ pc = "returned"
    /\ \E i \in DOMAIN soup : i \notin Qualifying(soup, keywords)
    /\ \E i \in DOMAIN soup :
          soup[i].has_title /\ Cardinality(Hits(keywords, soup[i].title)) >= 2
    /\ Len(extracted_articles) = 2
    /\ unique_id_counter > 2

\* C6: an extract_news call that raises leaves the counter, the store and the
\* records collected so far as they were.
C6_FailureTouchesNothing ==
    [][ (pc = "extract" /\ pc' = "failed")
        => /\ unique_id_counter' = unique_id_counter
           /\ store' = store
           /\ all_articles' = all_articles ]_vars

\* A configuration error in a process that has already consumed ids, against
\* a store that holds records.
C6_Witness ==
    /\ pc = "failed"
    /\ raised = "ValueError"
    /\ unique_id_counter > 0
    /\ all_articles # <<>>
    /\ store # <<>>

\* C7: the category of each record is the first category, in the order of
\* the map, with a keyword occurring in the title ignoring case; a title no
\* category matches gives no record.
C7_FirstMatchWins ==
    pc = "returned" =>
        LET Q == Qualifying(soup, keywords)
        IN /\ Len(extracted_articles) = Cardinality(Q)
           /\ \A j \in 1..Cardinality(Q) :
                 extracted_articles[j].Category =
                     keywords[Least(Hits(keywords, soup[Nth(Q, j)].title))].category

\* A title matched by two categories, neither of them the first of the map.
C7_Witness ==
    /\ pc = "returned"
    /\ Len(soup) = 1
    /\ soup[1].has_title
    /\ Cardinality(Hits(keywords, soup[1].title)) >= 2
    /\ 1 \notin Hits(keywords, soup[1].title)
    /\ Len(extracted_articles) = 1

\* C8: save_to_mongo appends to the store exactly the records of the batch
\* whose id the store did not hold, in batch order; what the store held is
\* kept as it was; insert_many is called only when there is such a record.
C8_WritesTheComplement ==
    [][ (pc \in {"persist", "saved_once"} /\ pc' \in {"saved_once", "saved_twice"})
        => LET N == {i \in DOMAIN all_articles :
                        \A j \in DOMAIN store : store[j].id # all_articles[i].id}
           IN /\ Len(store') = Len(store) + Cardinality(N)
              /\ \A j \in DOMAIN store : store'[j] = store[j]
              /\ \A k \in 1..Cardinality(N) :
                    store'[Len(store) + k] = all_articles[Nth(N, k)]
              /\ last_save'.insert_many = (N # {})
              /\ last_save'.n = Cardinality(N)
      ]_vars

\* One call that found part of the batch in a non-empty store and inserted
\* the rest.
C8_Witness ==
    /\ pc = "saved_once"
    /\ last_save.insert_many
    /\ last_save.n < Len(all_articles)
    /\ Len(store) > last_save.n

\* C9: sites are extracted in order, one per pass; save_to_mongo runs only
\* after the last site; a failed extraction ends the run with the store as it
\* was, and what the run had collected is dropped.
C9_RunAbortsOnFailure ==
    [][ /\ (pc = "extract" /\ pc' = "extract") => (site < NumSites /\ site' = site + 1)
        /\ pc' = "save" => (pc = "extract" /\ site = NumSites)
        /\ store' # store => (pc = "save" /\ pc' = "done")
        /\ pc' = "failed" => store' = store
        /\ pc = "failed" => (store' = store /\ all_articles' = <<>>)
        /\ pc = "done" => (pc' = "extract" /\ site' = 1 /\ all_articles' = <<>>)
      ]_vars

\* A later site failed after earlier sites of the run had yielded records.
C9_Witness ==
    /\ pc = "failed"
    /\ raised \in {"RequestException", "ValueError"}
    /\ site > 1
    /\ all_articles # <<>>

\* C10: after a run that completed, every record extracted in it is in the
\* store as extracted.
C10_NoArticleLost ==
    pc = "done" =>
        \A i \in DOMAIN all_articles :
            \E j \in DOMAIN store : store[j] = all_articles[i]

====
